---- MODULE Spec2Model ----
(***************************************************************************)
(* Model of the portfolio diversity calculator:                            *)
(*   utils.py                        load_regions, validate_portfolio_     *)
(*                                   sectors, get_countries_for_sector     *)
(*   calculate_portfolio_weights.py  calculate_portfolio_weights,          *)
(*                                   analyze_world_coverage, main          *)
(*   tests.py                        TestUtilities (direct resolver calls) *)
(*                                                                         *)
(* Numbers: the code computes weight * (pct / 100.0) in floating point.    *)
(* The model keeps every such product as the integer weight * pct, i.e.    *)
(* in hundredths of a percent, so that no division is needed: a sector     *)
(* weight of 35.0 is the integer 3500.  Benchmark weights themselves are   *)
(* plain integers (percent).                                               *)
(***************************************************************************)
EXTENDS Integers, Sequences, FiniteSets, TLC

\* ------------------------------------------------------------------ bounds
MaxEntries == 2      \* entries of a portfolio file
MaxSize == 4         \* entries plus listed tiers of a portfolio file
MaxGroupLen == 2     \* countries listed in one group of the taxonomy

\* ------------------------------------------------------------ input names
Countries == {"CN", "US"}
GroupLabels == {"Developed", "US"}
SectorLabels == {"All World", "Developed", "Emerging", "US", "CN", "Mars"}
WeightVals == {0, 50}

\* Python compares strings lexicographically; this is the resulting order of
\* every string the model uses.
Alphabetical ==
  <<"All World", "CN", "Developed", "Emerging", "Large", "Mars", "Medium",
    "Small", "UK", "US">>

Rank(s) == CHOOSE k \in 1..Len(Alphabetical) : Alphabetical[k] = s

\* ------------------------------------------------------- program constants
\* config['market_caps'], same as constants.MARKET_CAP_PCT
market_cap_pct == [cap \in {"Large", "Medium", "Small"} |->
                     IF cap = "Large" THEN 70 ELSE 15]

\* list(market_cap_pct.keys()): insertion order of the dict
all_caps == <<"Large", "Medium", "Small">>

\* --------------------------------------------------------- python helpers
Range(seq) == {seq[k] : k \in 1..Len(seq)}

InList(x, seq) == \E k \in 1..Len(seq) : seq[k] = x

\* list.count(x)
Count(seq, x) == Cardinality({k \in 1..Len(seq) : seq[k] = x})

RECURSIVE InsertSorted(_, _)
InsertSorted(seq, x) ==
  IF seq = <<>> THEN <<x>>
  ELSE IF Rank(x) < Rank(Head(seq)) THEN <<x>> \o seq
  ELSE <<Head(seq)>> \o InsertSorted(Tail(seq), x)

\* sorted(list) on strings
RECURSIVE sorted(_)
sorted(seq) ==
  IF seq = <<>> THEN <<>>
  ELSE InsertSorted(sorted(SubSeq(seq, 1, Len(seq) - 1)), seq[Len(seq)])

RECURSIVE SetToSortedSeq(_)
SetToSortedSeq(S) ==
  IF S = {} THEN <<>>
  ELSE LET m == CHOOSE x \in S : \A y \in S : Rank(x) <= Rank(y)
       IN  <<m>> \o SetToSortedSeq(S \ {m})

\* sum([f[x] for x in seq])
RECURSIVE SumSeq(_, _)
SumSeq(f, seq) ==
  IF seq = <<>> THEN 0 ELSE f[Head(seq)] + SumSeq(f, Tail(seq))

\* sum of f over a set of keys
RECURSIVE SumSet(_, _)
SumSet(f, S) ==
  IF S = {} THEN 0
  ELSE LET x == CHOOSE y \in S : TRUE IN f[x] + SumSet(f, S \ {x})

EmptyDict == [x \in {} |-> 0]

\* dict with key k set to v
Put(d, k, v) == [x \in DOMAIN d \cup {k} |-> IF x = k THEN v ELSE d[x]]

\* ------------------------------------------------------------------ utils
\* mutant of load_regions: the set is assigned, not updated, so that only the
\* last group's countries remain
load_regions_one_group(rg) ==
  IF DOMAIN rg = {} THEN <<>>
  ELSE SetToSortedSeq(Range(rg[CHOOSE g \in DOMAIN rg :
                                 \A h \in DOMAIN rg : Rank(h) <= Rank(g)]))

\* load_regions: all_countries = sorted(list(set of every listed country))
load_regions_all_countries(rg) ==
  SetToSortedSeq(UNION {Range(rg[g]) : g \in DOMAIN rg})

\* mutant of get_countries_for_sector: an unknown label is taken for a country
get_countries_unknown_as_country(sector, rg, ac) ==
  IF sector = "All World" THEN ac
  ELSE IF sector \in DOMAIN rg THEN rg[sector]
  ELSE <<sector>>

\* mutant of get_countries_for_sector: unknown labels fall back to the universe
get_countries_unknown_as_world(sector, rg, ac) ==
  IF sector = "All World" THEN ac
  ELSE IF sector \in DOMAIN rg THEN rg[sector]
  ELSE IF InList(sector, ac) THEN <<sector>>
  ELSE ac

\* mutant of get_countries_for_sector: the country list is tested before the
\* group mapping
get_countries_country_first(sector, rg, ac) ==
  IF sector = "All World" THEN ac
  ELSE IF InList(sector, ac) THEN <<sector>>
  ELSE IF sector \in DOMAIN rg THEN rg[sector]
  ELSE <<>>

\* mutant of get_countries_for_sector: the branch for single countries is lost
get_countries_no_country_branch(sector, rg, ac) ==
  IF sector = "All World" THEN ac
  ELSE IF sector \in DOMAIN rg THEN rg[sector]
  ELSE <<>>

get_countries_for_sector(sector, rg, ac) ==
  IF sector = "All World" THEN ac
  ELSE IF sector \in DOMAIN rg THEN rg[sector]
  ELSE IF InList(sector, ac) THEN <<sector>>
  ELSE <<>>

\* a validation that looks at the first sector only
invalid_sectors_first_only(pf, rg, ac) ==
  IF pf = <<>> THEN <<>>
  ELSE LET sector == Head(pf).sector
       IN  IF sector \in DOMAIN rg \/ InList(sector, ac) \/ sector = "All World"
           THEN <<>>
           ELSE <<sector>>

\* validate_portfolio_sectors: the list invalid_sectors
RECURSIVE invalid_sectors_of(_, _, _)
invalid_sectors_of(pf, rg, ac) ==
  IF pf = <<>> THEN <<>>
  ELSE LET sector == Head(pf).sector
           rest == invalid_sectors_of(Tail(pf), rg, ac)
       IN  IF sector \in DOMAIN rg \/ InList(sector, ac) \/ sector = "All World"
           THEN rest
           ELSE <<sector>> \o rest

\* validate_portfolio_sectors: the list valid_sectors
RECURSIVE valid_sectors_of(_, _, _)
valid_sectors_of(pf, rg, ac) ==
  IF pf = <<>> THEN <<>>
  ELSE LET sector == Head(pf).sector
           rest == valid_sectors_of(Tail(pf), rg, ac)
       IN  IF sector \in DOMAIN rg \/ InList(sector, ac) \/ sector = "All World"
           THEN <<sector>> \o rest
           ELSE rest


\* ------------------------------------------- calculate_portfolio_weights.py
\* an exception: its class, which raise statement it comes from, and the label
\* its message carries
NoError == [type |-> "none", msg |-> "", label |-> ""]

\* main, lines 261-266: add missing countries with 0 weight
add_missing_countries(df, ac) ==
  [c \in DOMAIN df \cup Range(ac) |-> IF c \in DOMAIN df THEN df[c] ELSE 0]

\* mutant of the region weights: the weight is assigned, not summed, so that a
\* group weighs what its last country weighs
build_region_weights_last(rg, df) ==
  [g \in DOMAIN rg |->
     LET S == Range(rg[g]) \cap DOMAIN df
     IN  IF S = {} THEN 0
         ELSE df[CHOOSE c \in S : \A d \in S : Rank(d) <= Rank(c)]]

\* main, lines 268-274: one weight per group, the sum of the rows of the
\* frame whose Country isin(the group's list)
build_region_weights(rg, df) ==
  [g \in DOMAIN rg |-> SumSet(df, Range(rg[g]) \cap DOMAIN df)]

\* the branch of the if/elif chain of calculate_portfolio_weights
calc_branch(sector, ac, rws) ==
  IF sector = "All World" THEN "universe"
  ELSE IF sector \in DOMAIN rws THEN "group"
  ELSE IF InList(sector, ac) THEN "country"
  ELSE "unknown"

\* an iteration that forgets to scale the weight by the tiers of the entry
sector_weight_unscaled(sector, caps, ac, rws, df) ==
  LET branch == calc_branch(sector, ac, rws)
  IN  IF branch = "universe"
        THEN [error |-> NoError, weight |-> 100 * 100]
      ELSE IF branch = "group"
        THEN [error |-> NoError, weight |-> rws[sector] * 100]
      ELSE IF branch = "country"
        THEN [error |-> NoError,
              weight |-> (IF sector \in DOMAIN df THEN df[sector] ELSE 0) * 100]
      ELSE [error |-> [type |-> "Exception", msg |-> "sector_not_found",
                       label |-> sector],
            weight |-> 0]

\* one iteration of the loop of calculate_portfolio_weights: the weight of
\* (sector, caps) in hundredths of a percent, or the exception
sector_weight_of(sector, caps, ac, rws, df) ==
  LET cap_pct == SumSeq(market_cap_pct, caps)
      branch == calc_branch(sector, ac, rws)
  IN  IF branch = "universe"
        THEN [error |-> NoError, weight |-> 100 * cap_pct]
      ELSE IF branch = "group"
        THEN [error |-> NoError, weight |-> rws[sector] * cap_pct]
      ELSE IF branch = "country"
        THEN [error |-> NoError,
              weight |-> (IF sector \in DOMAIN df THEN df[sector] ELSE 0) * cap_pct]
      ELSE [error |-> [type |-> "Exception", msg |-> "sector_not_found",
                       label |-> sector],
            weight |-> 0]

\* sum([(country_weights[country]/100.0) * market_cap_pct[cap] for cap in caps])
RECURSIVE weighted_pct(_, _)
weighted_pct(weight, caps) ==
  IF caps = <<>> THEN 0
  ELSE weight * market_cap_pct[Head(caps)] + weighted_pct(weight, Tail(caps))

\* a loop that sorts the tier list of the portfolio in place
caps_sorted_in_place(caps) == sorted(caps)

\* the tier list of the portfolio entry after the inner loop: sorted(caps) and
\* cap_coverage[country] + caps (lines 166, 172) build new lists
caps_after_loop(caps) == caps

\* the list get_countries_for_sector handed back, which is the list of the
\* taxonomy itself, after the inner loop: the loop only iterates over it
countries_after_loop(countries) == countries

\* an inner loop that replaces the tiers of a country it has seen before
\* instead of merging them
RECURSIVE accumulate_overwrite(_, _, _, _, _)
accumulate_overwrite(countries, caps, cw, cov, pct) ==
  IF countries = <<>>
    THEN [cap_coverage |-> cov, pct_coverage |-> pct, error |-> NoError]
  ELSE LET country == Head(countries) IN
    IF country \notin DOMAIN cw
      THEN [cap_coverage |-> cov, pct_coverage |-> pct,
            error |-> [type |-> "Exception", msg |-> "country_not_found",
                       label |-> country]]
    ELSE accumulate_overwrite(Tail(countries), caps, cw,
                              Put(cov, country, sorted(caps)),
                              Put(pct, country, weighted_pct(cw[country], caps)))

\* analyze_world_coverage, lines 161-176: the inner loop over the countries
\* of one sector; stops at the first country without a benchmark weight
RECURSIVE accumulate(_, _, _, _, _)
accumulate(countries, caps, cw, cov, pct) ==
  IF countries = <<>>
    THEN [cap_coverage |-> cov, pct_coverage |-> pct, error |-> NoError]
  ELSE LET country == Head(countries) IN
    IF country \notin DOMAIN cw
      THEN [cap_coverage |-> cov, pct_coverage |-> pct,
            error |-> [type |-> "Exception", msg |-> "country_not_found",
                       label |-> country]]
    ELSE IF country \notin DOMAIN cov
      THEN accumulate(Tail(countries), caps, cw,
                      Put(cov, country, sorted(caps)),
                      Put(pct, country, weighted_pct(cw[country], caps)))
    ELSE accumulate(Tail(countries), caps, cw,
                    Put(cov, country, sorted(cov[country] \o caps)),
                    Put(pct, country,
                        pct[country] + weighted_pct(cw[country], caps)))

\* cap_coverage[country] as the second loop sees it (lines 186-187)
coverage_of(cov, country) ==
  IF country \in DOMAIN cov THEN cov[country] ELSE <<>>

\* line 189
missing_caps_cur(cov, country) ==
  SelectSeq(all_caps, LAMBDA element : ~InList(element, coverage_of(cov, country)))

\* lines 197-200
extra_caps_cur(cov, country) ==
  SelectSeq(all_caps, LAMBDA element : Count(coverage_of(cov, country), element) > 1)

\* mutant of the report: the second loop visits only the countries the
\* portfolio touched
coverage_report_touched_only(cw, cov) ==
  LET missing == {c \in DOMAIN cw \cap DOMAIN cov : missing_caps_cur(cov, c) # <<>>}
      overlapping == {c \in DOMAIN cw \cap DOMAIN cov : extra_caps_cur(cov, c) # <<>>}
  IN  [missing_caps |-> [c \in missing |-> missing_caps_cur(cov, c)],
       missing_pct |-> [c \in missing |->
                          weighted_pct(cw[c], missing_caps_cur(cov, c))],
       overlapping_caps |-> [c \in overlapping |-> extra_caps_cur(cov, c)],
       overlapping_pct |-> [c \in overlapping |->
                              weighted_pct(cw[c], extra_caps_cur(cov, c))]]

\* mutant of the report: the overlapping percentage counts a tier as often as
\* it is supplied
coverage_report_multiplicity(cw, cov) ==
  LET missing == {c \in DOMAIN cw : missing_caps_cur(cov, c) # <<>>}
      overlapping == {c \in DOMAIN cw : extra_caps_cur(cov, c) # <<>>}
  IN  [missing_caps |-> [c \in missing |-> missing_caps_cur(cov, c)],
       missing_pct |-> [c \in missing |->
                          weighted_pct(cw[c], missing_caps_cur(cov, c))],
       overlapping_caps |-> [c \in overlapping |-> extra_caps_cur(cov, c)],
       overlapping_pct |-> [c \in overlapping |->
                              weighted_pct(cw[c],
                                SelectSeq(coverage_of(cov, c),
                                  LAMBDA element :
                                    Count(coverage_of(cov, c), element) > 1))]]

\* analyze_world_coverage, lines 178-213: the second loop and the report
coverage_report(cw, cov) ==
  LET missing == {c \in DOMAIN cw : missing_caps_cur(cov, c) # <<>>}
      overlapping == {c \in DOMAIN cw : extra_caps_cur(cov, c) # <<>>}
  IN  [missing_caps |-> [c \in missing |-> missing_caps_cur(cov, c)],
       missing_pct |-> [c \in missing |->
                          weighted_pct(cw[c], missing_caps_cur(cov, c))],
       overlapping_caps |-> [c \in overlapping |-> extra_caps_cur(cov, c)],
       overlapping_pct |-> [c \in overlapping |->
                              weighted_pct(cw[c], extra_caps_cur(cov, c))]]

NoReport ==
  [missing_caps |-> EmptyDict, missing_pct |-> EmptyDict,
   overlapping_caps |-> EmptyDict, overlapping_pct |-> EmptyDict]


\* analyze_world_coverage, lines 155-176: the first loop, from entry pf[1] on
RECURSIVE analyze_loop(_, _, _, _, _, _)
analyze_loop(pf, cw, rg, ac, cov, pct) ==
  IF pf = <<>>
    THEN [cap_coverage |-> cov, pct_coverage |-> pct, error |-> NoError]
  ELSE LET countries == get_countries_for_sector(Head(pf).sector, rg, ac)
           r == accumulate(countries, Head(pf).caps, cw, cov, pct)
       IN  IF countries = <<>>
             THEN [cap_coverage |-> cov, pct_coverage |-> pct,
                   error |-> [type |-> "Exception", msg |-> "unknown_sector",
                              label |-> Head(pf).sector]]
           ELSE IF r.error # NoError THEN r
           ELSE analyze_loop(Tail(pf), cw, rg, ac, r.cap_coverage,
                             r.pct_coverage)

\* analyze_world_coverage as one call: the exception it raises or the report
analyze_world_coverage(pf, cw, rg, ac) ==
  LET r == analyze_loop(pf, cw, rg, ac, EmptyDict, EmptyDict)
  IN  IF r.error # NoError
        THEN [error |-> r.error, results |-> NoReport]
        ELSE [error |-> NoError,
              results |-> coverage_report(cw, r.cap_coverage)]

\* ------------------------------------------------------------ constants.py
\* MARKET_TO_COUNTRY and COUNTRIES, cut down to the countries of the model
MARKET_TO_COUNTRY == [Developed |-> <<"US">>, Emerging |-> <<"CN">>]

COUNTRIES == MARKET_TO_COUNTRY["Developed"] \o MARKET_TO_COUNTRY["Emerging"]

\* test_world_coverage, lines 35-42: the countries of a sector; skip is the
\* continue of line 42
test_world_coverage_countries(sector, region_to_country) ==
  IF sector \in DOMAIN region_to_country
    THEN [skip |-> FALSE, countries |-> region_to_country[sector]]
  ELSE IF sector \in DOMAIN MARKET_TO_COUNTRY
    THEN [skip |-> FALSE, countries |-> MARKET_TO_COUNTRY[sector]]
  ELSE IF InList(sector, COUNTRIES)
    THEN [skip |-> FALSE, countries |-> <<sector>>]
  ELSE [skip |-> TRUE, countries |-> <<>>]

\* the inner loop of test_world_coverage (lines 43-47) and of
\* check_world_coverage (tests.py, lines 37-41)
RECURSIVE add_coverage(_, _, _)
add_coverage(countries, caps, cov) ==
  IF countries = <<>> THEN cov
  ELSE LET country == Head(countries) IN
    IF country \notin DOMAIN cov
      THEN add_coverage(Tail(countries), caps, Put(cov, country, sorted(caps)))
      ELSE add_coverage(Tail(countries), caps,
                        Put(cov, country, sorted(cov[country] \o caps)))

\* test_world_coverage, lines 33-47: cap_coverage after the loop over pf
RECURSIVE test_world_coverage_loop(_, _, _)
test_world_coverage_loop(pf, region_to_country, cov) ==
  IF pf = <<>> THEN cov
  ELSE LET r == test_world_coverage_countries(Head(pf).sector, region_to_country)
       IN  test_world_coverage_loop(
             Tail(pf), region_to_country,
             IF r.skip THEN cov ELSE add_coverage(r.countries, Head(pf).caps, cov))

\* every value equals the first one (lines 51-55; tests.py, lines 50-52)
all_same(cov) == \A c, d \in DOMAIN cov : cov[c] = cov[d]

\* test_world_coverage: how the call ends
test_world_coverage(pf, region_to_country) ==
  LET cov == test_world_coverage_loop(pf, region_to_country, EmptyDict)
  IN  [outcome |-> "return",
       value |-> IF cov = EmptyDict THEN FALSE ELSE all_same(cov)]

\* ---------------------------------------------------------------- tests.py
\* check_world_coverage, lines 32-41: cap_coverage after the loop over pf
RECURSIVE check_world_coverage_loop(_, _, _, _)
check_world_coverage_loop(pf, rg, ac, cov) ==
  IF pf = <<>> THEN cov
  ELSE check_world_coverage_loop(
         Tail(pf), rg, ac,
         add_coverage(get_countries_for_sector(Head(pf).sector, rg, ac),
                      Head(pf).caps, cov))

\* line 47
expected_coverage == sorted(all_caps)

\* check_world_coverage: how the call ends, value is is_perfect
check_world_coverage(pf, rg, ac) ==
  LET cov == check_world_coverage_loop(pf, rg, ac, EmptyDict)
  IN  [outcome |-> "return",
       value |-> IF cov = EmptyDict THEN FALSE
                 ELSE all_same(cov)
                        /\ \A c \in DOMAIN cov : cov[c] = expected_coverage]


\* ----------------------------------------------------------------- inputs
BoundedSeq(S, n) == UNION {[1..k -> S] : k \in 0..n}

Tiers == Range(all_caps)

\* region_groupings as read from regions.yaml: group label -> list of countries
Taxonomies ==
  UNION {[K -> BoundedSeq(Countries, MaxGroupLen)] : K \in SUBSET GroupLabels}

\* a partition of the universe (the shape of the sample regions.yaml), and two
\* groups that overlap
SampleTaxonomies ==
  {[g \in {"Developed", "Emerging"} |->
      IF g = "Developed" THEN <<"US">> ELSE <<"CN">>],
   [g \in {"Developed", "Emerging"} |->
      IF g = "Developed" THEN <<"CN", "US">> ELSE <<"CN">>]}

\* the rows fetch_country_weights returns: country -> weight, never empty
Benchmarks ==
  UNION {[D -> WeightVals] : D \in (SUBSET Countries) \ {{}}}

\* the benchmarks with a row for every country and a positive weight for US
FullBenchmarks == {b \in [Countries -> WeightVals] : b["US"] > 0}

\* a portfolio file: sector -> list of tiers, in file order, keys distinct
RECURSIVE SizeOf(_)
SizeOf(pf) ==
  IF pf = <<>> THEN 0 ELSE 1 + Len(Head(pf).caps) + SizeOf(Tail(pf))

\* the entries that can follow pf in a file of at most MaxSize
Entries(pf) ==
  [sector : SectorLabels \ {pf[k].sector : k \in 1..Len(pf)},
   caps : BoundedSeq(Tiers, MaxSize - SizeOf(pf) - 1)]

RECURSIVE PortfoliosOfLen(_)
PortfoliosOfLen(n) ==
  IF n = 0 THEN {<<>>}
  ELSE UNION {{Append(pf, e) : e \in Entries(pf)} :
                pf \in {q \in PortfoliosOfLen(n - 1) : SizeOf(q) < MaxSize}}

Portfolios == UNION {PortfoliosOfLen(n) : n \in 0..MaxEntries}

\* portfolios of one sector with no tier or the tier Large
SmallPortfolios ==
  {<<e>> : e \in [sector : SectorLabels, caps : BoundedSeq({"Large"}, 1)]}

\* the inputs of a run: every taxonomy and benchmark with a small portfolio,
\* and every portfolio with a sample taxonomy and a full benchmark
Scenarios ==
  (Taxonomies \X Benchmarks \X SmallPortfolios)
    \cup (SampleTaxonomies \X FullBenchmarks \X Portfolios)

\* ------------------------------------------------------------------ state
VARIABLES
  pc,                \* position of the run
  mode,              \* "main": run of main; "direct": functions called directly
  region_groupings,  \* taxonomy: group label -> list of countries
  fetched,           \* benchmark rows as fetched: country -> weight
  portfolio,         \* sequence of [sector, caps]
  all_countries,     \* sorted list built by load_regions
  country_weights,   \* country_weights_df / country_weights handed to the functions
  region_weights,    \* region_weights_series
  invalid_sectors,   \* second result of validate_portfolio_sectors
  idx,               \* index of the portfolio entry the current loop is at
  sector_weights,    \* calculate_portfolio_weights: the list sector_weights
  calc_error,        \* exception raised by calculate_portfolio_weights
  cap_coverage,      \* analyze_world_coverage: cap_coverage
  pct_coverage,      \* analyze_world_coverage: pct_coverage
  results,           \* the dict analyze_world_coverage returns
  error,             \* exception that ended main / analyze_world_coverage
  query,             \* label of a direct call of get_countries_for_sector
  resolved,          \* outcome of that call
  verdict,           \* outcome of test_world_coverage / check_world_coverage
  call,              \* which call of analyze_world_coverage this is: 1 or 2
  first_results      \* what the first call of analyze_world_coverage returned

vars ==
  <<pc, mode, region_groupings, fetched, portfolio, all_countries,
    country_weights, region_weights, invalid_sectors, idx, sector_weights,
    calc_error, cap_coverage, pct_coverage, results, error, query, resolved,
    verdict, call, first_results>>

inputs == <<region_groupings, fetched, portfolio>>

NoOutcome == [outcome |-> "none", value |-> <<>>]

Init ==
  /\ \E sc \in Scenarios :
       /\ region_groupings = sc[1]
       /\ fetched = sc[2]
       /\ portfolio = sc[3]
  /\ pc = "start"
  /\ mode = "none"
  /\ all_countries = <<>>
  /\ country_weights = EmptyDict
  /\ region_weights = EmptyDict
  /\ invalid_sectors = <<>>
  /\ idx = 0
  /\ sector_weights = <<>>
  /\ calc_error = NoError
  /\ cap_coverage = EmptyDict
  /\ pct_coverage = EmptyDict
  /\ results = NoReport
  /\ error = NoError
  /\ query = ""
  /\ resolved = NoOutcome
  /\ verdict = NoOutcome
  /\ call = 1
  /\ first_results = NoReport

\* utils.load_regions (called by main, line 245, and by the tests' setUpClass)
LoadRegions ==
  /\ pc = "start"
  /\ all_countries' = load_regions_all_countries(region_groupings)
  /\ pc' = "loaded"
  /\ UNCHANGED <<mode, inputs, country_weights, region_weights,
                 invalid_sectors, idx, sector_weights, calc_error,
                 cap_coverage, pct_coverage, results, error, query, resolved, verdict, call,
                 first_results>>

\* tests.py TestUtilities: get_countries_for_sector called on its own
ResolveCall ==
  /\ pc = "loaded"
  /\ \E s \in SectorLabels :
       /\ query' = s
       /\ resolved' = [outcome |-> "return",
                       value |-> get_countries_for_sector(s, region_groupings,
                                                          all_countries)]
  /\ pc' = "resolved"
  /\ UNCHANGED <<mode, inputs, all_countries, country_weights, region_weights,
                 invalid_sectors, idx, sector_weights, calc_error,
                 cap_coverage, pct_coverage, results, error, verdict, call, first_results>>

\* constants.test_world_coverage called with the portfolio and the taxonomy
TestWorldCoverage ==
  /\ pc = "loaded"
  /\ verdict' = test_world_coverage(portfolio, region_groupings)
  /\ pc' = "tested"
  /\ UNCHANGED <<mode, inputs, all_countries, country_weights, region_weights,
                 invalid_sectors, idx, sector_weights, calc_error,
                 cap_coverage, pct_coverage, results, error, query, resolved, call,
                 first_results>>

\* TestCoverage.check_world_coverage called with the portfolio (tests.py)
CheckWorldCoverage ==
  /\ pc = "loaded"
  /\ verdict' = check_world_coverage(portfolio, region_groupings, all_countries)
  /\ pc' = "checked"
  /\ UNCHANGED <<mode, inputs, all_countries, country_weights, region_weights,
                 invalid_sectors, idx, sector_weights, calc_error,
                 cap_coverage, pct_coverage, results, error, query, resolved, call,
                 first_results>>

\* main, lines 253-256
ValidatePortfolio ==
  /\ pc = "loaded"
  /\ mode' = "main"
  /\ invalid_sectors' = invalid_sectors_of(portfolio, region_groupings,
                                           all_countries)
  /\ IF invalid_sectors' # <<>>
       THEN /\ pc' = "failed"
            /\ error' = [type |-> "Exception", msg |-> "unknown_sectors",
                         label |-> invalid_sectors'[1]]
       ELSE /\ pc' = "validated"
            /\ UNCHANGED error
  /\ UNCHANGED <<inputs, all_countries, country_weights, region_weights, idx,
                 sector_weights, calc_error, cap_coverage, pct_coverage,
                 results, query, resolved, verdict, call,
                 first_results>>

\* main, lines 258-266: fetch the benchmark, add missing countries with 0
FetchCountryWeights ==
  /\ pc = "validated"
  /\ country_weights' = add_missing_countries(fetched, all_countries)
  /\ pc' = "fetched"
  /\ UNCHANGED <<mode, inputs, all_countries, region_weights, invalid_sectors,
                 idx, sector_weights, calc_error, cap_coverage, pct_coverage,
                 results, error, query, resolved, verdict, call,
                 first_results>>

\* calculate_portfolio_weights and analyze_world_coverage called by another
\* program with the benchmark mapping as it is, without main's validation
DirectCall ==
  /\ pc = "loaded"
  /\ mode' = "direct"
  /\ country_weights' = fetched
  /\ pc' = "fetched"
  /\ UNCHANGED <<inputs, all_countries, region_weights, invalid_sectors, idx,
                 sector_weights, calc_error, cap_coverage, pct_coverage,
                 results, error, query, resolved, verdict, call,
                 first_results>>

\* main, lines 268-274
BuildRegionWeights ==
  /\ pc = "fetched"
  /\ region_weights' = build_region_weights(region_groupings, country_weights)
  /\ pc' = "calc"
  /\ idx' = 1
  /\ UNCHANGED <<mode, inputs, all_countries, country_weights, invalid_sectors,
                 sector_weights, calc_error, cap_coverage, pct_coverage,
                 results, error, query, resolved, verdict, call,
                 first_results>>

\* calculate_portfolio_weights, lines 114-130: one iteration of the loop
CalcStep ==
  /\ pc = "calc"
  /\ idx <= Len(portfolio)
  /\ LET r == sector_weight_of(portfolio[idx].sector, portfolio[idx].caps,
                               all_countries, region_weights, country_weights)
     IN  IF r.error # NoError
           THEN /\ calc_error' = r.error
                /\ IF mode = "main"
                     THEN pc' = "failed" /\ error' = r.error /\ UNCHANGED idx
                     ELSE pc' = "analyze" /\ idx' = 1 /\ UNCHANGED error
                /\ UNCHANGED sector_weights
           ELSE /\ sector_weights' = Append(sector_weights, r.weight)
                /\ idx' = idx + 1
                /\ UNCHANGED <<pc, calc_error, error>>
  /\ UNCHANGED <<mode, inputs, all_countries, country_weights, region_weights,
                 invalid_sectors, cap_coverage, pct_coverage, results, query,
                 resolved, verdict, call,
                 first_results>>

\* calculate_portfolio_weights, lines 132-136: the frame is built and returned
CalcReturn ==
  /\ pc = "calc"
  /\ idx > Len(portfolio)
  /\ pc' = "analyze"
  /\ idx' = 1
  /\ UNCHANGED <<mode, inputs, all_countries, country_weights, region_weights,
                 invalid_sectors, sector_weights, calc_error, cap_coverage,
                 pct_coverage, results, error, query, resolved, verdict, call,
                 first_results>>

\* analyze_world_coverage, lines 155-176: one iteration of the first loop
AnalyzeStep ==
  /\ pc = "analyze"
  /\ idx <= Len(portfolio)
  /\ LET sector == portfolio[idx].sector
         caps == portfolio[idx].caps
         countries == get_countries_for_sector(sector, region_groupings,
                                               all_countries)
         r == accumulate(countries, caps, country_weights, cap_coverage,
                         pct_coverage)
     IN  IF countries = <<>>
           THEN /\ pc' = "failed"
                /\ error' = [type |-> "Exception", msg |-> "unknown_sector",
                             label |-> sector]
                /\ UNCHANGED <<idx, cap_coverage, pct_coverage>>
           ELSE /\ cap_coverage' = r.cap_coverage
                /\ pct_coverage' = r.pct_coverage
                /\ IF r.error # NoError
                     THEN pc' = "failed" /\ error' = r.error /\ UNCHANGED idx
                     ELSE idx' = idx + 1 /\ UNCHANGED <<pc, error>>
  \* the objects the loop holds references to: the tier list of the entry
  \* and the list the resolver handed back (utils.py, lines 76-81)
  /\ LET sector == portfolio[idx].sector
         countries == get_countries_for_sector(sector, region_groupings,
                                               all_countries)
     IN  /\ portfolio' = IF countries = <<>> THEN portfolio
                         ELSE [portfolio EXCEPT
                                 ![idx].caps = caps_after_loop(@)]
         /\ all_countries' = IF sector = "All World"
                               THEN countries_after_loop(countries)
                               ELSE all_countries
         /\ region_groupings' =
              IF sector # "All World" /\ sector \in DOMAIN region_groupings
                THEN [region_groupings EXCEPT ![sector] = countries_after_loop(@)]
                ELSE region_groupings
  /\ UNCHANGED <<mode, fetched, country_weights, region_weights,
                 invalid_sectors, sector_weights, calc_error, results, query,
                 resolved, verdict, call,
                 first_results>>

\* analyze_world_coverage, lines 178-213: the second loop and the return
AnalyzeReport ==
  /\ pc = "analyze"
  /\ idx > Len(portfolio)
  /\ results' = coverage_report(country_weights, cap_coverage)
  /\ pc' = "done"
  /\ UNCHANGED <<mode, inputs, all_countries, country_weights, region_weights,
                 invalid_sectors, idx, sector_weights, calc_error,
                 cap_coverage, pct_coverage, error, query, resolved, verdict, call,
                 first_results>>

\* dicts that live on from one call to the next
kept_coverage == [cap_coverage |-> cap_coverage, pct_coverage |-> pct_coverage]

\* lines 152-153: cap_coverage = {} and pct_coverage = {}
new_coverage == [cap_coverage |-> EmptyDict, pct_coverage |-> EmptyDict]

\* a caller calls analyze_world_coverage a second time with the same
\* arguments; lines 152-153 set up the dicts of the new call
AnalyzeAgain ==
  /\ pc = "done"
  /\ mode = "direct"
  /\ call = 1
  /\ call' = 2
  /\ first_results' = results
  /\ results' = NoReport
  /\ cap_coverage' = new_coverage.cap_coverage
  /\ pct_coverage' = new_coverage.pct_coverage
  /\ idx' = 1
  /\ pc' = "analyze"
  /\ UNCHANGED <<mode, inputs, all_countries, country_weights, region_weights,
                 invalid_sectors, sector_weights, calc_error, error, query,
                 resolved, verdict>>

Next ==
  \/ LoadRegions
  \/ ResolveCall
  \/ TestWorldCoverage
  \/ CheckWorldCoverage
  \/ ValidatePortfolio
  \/ FetchCountryWeights
  \/ DirectCall
  \/ BuildRegionWeights
  \/ CalcStep
  \/ CalcReturn
  \/ AnalyzeStep
  \/ AnalyzeReport
  \/ AnalyzeAgain

Spec == Init /\ [][Next]_vars


\* ------------------------------------------------------------ vocabulary
\* what get_countries_for_sector returns for entry k of the portfolio
CountriesOf(k) ==
  get_countries_for_sector(portfolio[k].sector, region_groupings, all_countries)

\* sum of the benchmark weights of a set of countries (percent)
BenchmarkWeight(S) == SumSet(country_weights, S \cap DOMAIN country_weights)

\* sum of market_cap_pct[t] over the tiers of a list
TierPct(caps) == SumSeq(market_cap_pct, caps)

\* sum of the numbers of a list
RECURSIVE Total(_)
Total(seq) == IF seq = <<>> THEN 0 ELSE Head(seq) + Total(Tail(seq))

\* calculate_portfolio_weights and analyze_world_coverage both returned
BothReturned == pc = "done" /\ calc_error = NoError

Perfect == DOMAIN results.missing_caps = {} /\ DOMAIN results.overlapping_caps = {}

\* how many times the portfolio supplies tier t for country c: once for each
\* entry whose country set contains c and each time the entry lists t
RECURSIVE SuppliedUpTo(_, _, _)
SuppliedUpTo(n, c, t) ==
  IF n = 0 THEN 0
  ELSE SuppliedUpTo(n - 1, c, t)
         + (IF c \in Range(CountriesOf(n)) THEN Count(portfolio[n].caps, t) ELSE 0)

Supplied(c, t) == SuppliedUpTo(Len(portfolio), c, t)

\* the same, a country listed twice by the group counting twice
RECURSIVE OccurrencesUpTo(_, _, _)
OccurrencesUpTo(n, c, t) ==
  IF n = 0 THEN 0
  ELSE OccurrencesUpTo(n - 1, c, t)
         + Count(CountriesOf(n), c) * Count(portfolio[n].caps, t)

\* ----------------------------------------------------------------- claims
\* C1: for every portfolio entry whose sector resolves, the weight that
\* calculate_portfolio_weights reports equals the sum of the benchmark weights
\* of exactly the countries get_countries_for_sector returns for the sector,
\* times the sum of market_cap_pct over the entry's tiers divided by 100.
C1_SectorWeightIsCountrySum ==
  \A k \in 1..Len(sector_weights) :
    CountriesOf(k) # <<>> =>
      sector_weights[k] =
        BenchmarkWeight(Range(CountriesOf(k))) * TierPct(portfolio[k].caps)

RECURSIVE AllWorldPct(_)
AllWorldPct(pf) ==
  IF pf = <<>> THEN 0
  ELSE IF Head(pf).sector = "All World" THEN TierPct(Head(pf).caps)
  ELSE AllWorldPct(Tail(pf))

C3_MissingCapsExact ==
  pc = "done" =>
    \A c \in DOMAIN country_weights :
      LET expected == SelectSeq(all_caps, LAMBDA t : Supplied(c, t) = 0)
      IN  /\ (c \in DOMAIN results.missing_caps) <=> (expected # <<>>)
          /\ c \in DOMAIN results.missing_caps =>
               results.missing_caps[c] = expected
          /\ (\A k \in 1..Len(portfolio) : c \notin Range(CountriesOf(k)))
               => /\ c \in DOMAIN results.missing_caps
                  /\ results.missing_caps[c] = all_caps

C3_Witness ==
  /\ pc = "done"
  /\ \E c, d \in DOMAIN country_weights :
       /\ country_weights[c] = 0
       /\ \A k \in 1..Len(portfolio) : c \notin Range(CountriesOf(k))
       /\ results.missing_caps[c] = all_caps
       /\ d \in DOMAIN cap_coverage
       /\ d \in DOMAIN results.missing_caps
       /\ results.missing_caps[d] = <<"Small">>

\* C4: overlapping_caps[country] is exactly the list of tiers the portfolio
\* supplies for the country more than once, counting every entry whose
\* resolved country set contains the country; a country with no such tier has
\* no entry.
C4_OverlappingCapsExact ==
  pc = "done" =>
    \A c \in DOMAIN country_weights :
      LET expected == SelectSeq(all_caps, LAMBDA t : Supplied(c, t) > 1)
      IN  /\ (c \in DOMAIN results.overlapping_caps) <=> (expected # <<>>)
          /\ c \in DOMAIN results.overlapping_caps =>
               results.overlapping_caps[c] = expected

\* C5: missing_pct has the keys of missing_caps and overlapping_pct those of
\* overlapping_caps, and each value is benchmark_weights[country]/100 times
\* market_cap_pct[tier] summed over the tiers listed for the country, each
\* tier counted once.
C5_PctFollowCaps ==
  pc = "done" =>
    /\ DOMAIN results.missing_pct = DOMAIN results.missing_caps
    /\ DOMAIN results.overlapping_pct = DOMAIN results.overlapping_caps
    /\ \A c \in DOMAIN results.missing_caps :
         results.missing_pct[c] =
           country_weights[c] * SumSet(market_cap_pct, Range(results.missing_caps[c]))
    /\ \A c \in DOMAIN results.overlapping_caps :
         results.overlapping_pct[c] =
           country_weights[c]
             * SumSet(market_cap_pct, Range(results.overlapping_caps[c]))

C5_Witness ==
  /\ pc = "done"
  /\ "US" \in DOMAIN results.overlapping_caps
  /\ country_weights["US"] = 50
  /\ results.overlapping_caps["US"] = <<"Large">>
  /\ results.overlapping_pct["US"] = 3500
  /\ "US" \in DOMAIN results.missing_pct
  /\ results.missing_pct["US"] = 750


\* a label that is neither the universe label, nor a group, nor a country
Unknown(s) ==
  /\ s # "All World"
  /\ s \notin DOMAIN region_groupings
  /\ ~InList(s, all_countries)

\* the kind of a label under the precedence universe, group, country
KindOf(s) ==
  IF s = "All World" THEN "universe"
  ELSE IF s \in DOMAIN region_groupings THEN "group"
  ELSE IF InList(s, all_countries) THEN "country"
  ELSE "unknown"

\* every country listed by some group of the taxonomy
Universe == UNION {Range(region_groupings[g]) : g \in DOMAIN region_groupings}

\* C6 as stated: resolving an unknown label ends in an error outcome, not in a
\* returned value.
C6_UnknownSectorRaises ==
  (pc = "resolved" /\ Unknown(query)) => resolved.outcome = "raise"

\* C6 amended: the resolver returns (an empty list) for an unknown label; the
\* error is signalled by the caller: analyze_world_coverage never gets past a
\* sector with an unknown label, it ends in an Exception that carries the
\* label, and so does calculate_portfolio_weights.
C6_CallerRaisesForUnknownSector ==
  /\ pc = "resolved" => resolved.outcome = "return"
  /\ pc \in {"analyze", "done"} =>
       \A k \in 1..Len(portfolio) : k < idx => ~Unknown(portfolio[k].sector)
  /\ (pc = "failed" /\ mode = "direct" /\ error.msg # "country_not_found") =>
       /\ error = [type |-> "Exception", msg |-> "unknown_sector",
                   label |-> portfolio[idx].sector]
       /\ CountriesOf(idx) = <<>>
  /\ calc_error # NoError =>
       /\ calc_error.type = "Exception"
       /\ \E k \in 1..Len(portfolio) :
            /\ Unknown(portfolio[k].sector)
            /\ calc_error.label = portfolio[k].sector
            /\ Len(sector_weights) = k - 1

C6_Witness ==
  /\ pc = "failed"
  /\ mode = "direct"
  /\ idx = 2
  /\ Unknown(portfolio[2].sector)
  /\ ~Unknown(portfolio[1].sector)
  /\ error.label = portfolio[2].sector
  /\ calc_error.label = portfolio[2].sector

\* C7: get_countries_for_sector called with a label that is not "All World",
\* not a key of region_groupings and not in all_countries returns the empty
\* list.
C7_UnknownSectorReturnsEmpty ==
  (pc = "resolved" /\ Unknown(query)) =>
    resolved = [outcome |-> "return", value |-> <<>>]

C7_Witness ==
  /\ pc = "resolved"
  /\ query = "Mars"
  /\ all_countries # <<>>
  /\ DOMAIN region_groupings # {}
  /\ resolved.value = <<>>

\* C8: get_countries_for_sector("All World") returns exactly the universe: the
\* set of its result is the set of all countries that appear in any group.
C8_AllWorldIsUniverse ==
  (pc = "resolved" /\ query = "All World") =>
    /\ resolved.outcome = "return"
    /\ Range(resolved.value) = Universe

C8_Witness ==
  /\ pc = "resolved"
  /\ query = "All World"
  /\ Cardinality(DOMAIN region_groupings) = 2
  /\ \E g, h \in DOMAIN region_groupings :
       Range(region_groupings[g]) \ Range(region_groupings[h]) # {}
  /\ Range(resolved.value) = Countries

\* C9 as stated: for every member of all_countries the resolver returns the
\* singleton of that country.
C9_CountryResolvesToItself ==
  (pc = "resolved" /\ InList(query, all_countries)) =>
    resolved.value = <<query>>

\* C9 amended: for every member of all_countries that is not the universe label
\* and not a key of region_groupings the resolver returns the singleton of
\* that country.
C9_PlainCountryResolvesToItself ==
  (pc = "resolved" /\ InList(query, all_countries)
     /\ query # "All World" /\ query \notin DOMAIN region_groupings) =>
    resolved = [outcome |-> "return", value |-> <<query>>]

C9_Witness ==
  /\ pc = "resolved"
  /\ query = "CN"
  /\ Len(all_countries) = 2
  /\ DOMAIN region_groupings # {}
  /\ resolved.value = <<"CN">>

\* C10: the universe label is tested first, then the group mapping, then the
\* country list: a key of region_groupings resolves to that group's list, also
\* when it is a country name, and calculate_portfolio_weights puts every
\* sector into the same kind as the resolver.
C10_Precedence ==
  /\ pc = "resolved" =>
       resolved.value =
         (IF KindOf(query) = "universe" THEN all_countries
          ELSE IF KindOf(query) = "group" THEN region_groupings[query]
          ELSE IF KindOf(query) = "country" THEN <<query>>
          ELSE <<>>)
  /\ (pc \in {"calc", "analyze", "done"} \/ (pc = "failed" /\ idx > 0)) =>
       \A k \in 1..Len(portfolio) :
         calc_branch(portfolio[k].sector, all_countries, region_weights)
           = KindOf(portfolio[k].sector)
  /\ \A k \in 1..Len(sector_weights) :
       LET s == portfolio[k].sector
       IN  /\ KindOf(s) # "unknown"
           /\ KindOf(s) = "group" =>
                sector_weights[k] =
                  BenchmarkWeight(Range(region_groupings[s]))
                    * TierPct(portfolio[k].caps)
           /\ KindOf(s) = "country" =>
                sector_weights[k] =
                  BenchmarkWeight({s}) * TierPct(portfolio[k].caps)
  /\ (pc \in {"analyze", "done"} \/ (pc = "failed" /\ idx > 0)) =>
       \A k \in 1..Len(portfolio) :
         k < idx => CountriesOf(k) =
           (IF KindOf(portfolio[k].sector) = "universe" THEN all_countries
            ELSE IF KindOf(portfolio[k].sector) = "group"
              THEN region_groupings[portfolio[k].sector]
            ELSE <<portfolio[k].sector>>)

C10_Witness ==
  /\ pc = "resolved"
  /\ query = "US"
  /\ "US" \in DOMAIN region_groupings
  /\ InList("US", all_countries)
  /\ resolved.value = region_groupings["US"]
  /\ resolved.value # <<"US">>

\* every sector of the portfolio resolves to at least one country
AllResolve ==
  \A k \in 1..Len(portfolio) : CountriesOf(k) # <<>>

\* the known countries that have no benchmark weight
Unweighted == Range(all_countries) \ DOMAIN country_weights

\* C11: a known country that is absent from the benchmark weights is treated
\* as weight 0 and never causes an error: calculate_portfolio_weights and
\* analyze_world_coverage both complete normally for a portfolio whose
\* resolved countries include such a country, and it contributes 0.
C11_AbsentCountryIsZero ==
  (pc \in {"analyze", "done", "failed"} /\ AllResolve) =>
    /\ calc_error = NoError
    /\ pc # "failed"
    /\ \A k \in 1..Len(sector_weights) :
         (KindOf(portfolio[k].sector) = "country"
            /\ portfolio[k].sector \in Unweighted) => sector_weights[k] = 0

\* C12: for the sector "All World" with a tier list that covers all tiers,
\* calculate_portfolio_weights yields exactly the unscaled sum of all
\* benchmark weights of the universe, for every benchmark mapping.
C12_AllWorldIsBenchmarkSum ==
  \A k \in 1..Len(sector_weights) :
    (portfolio[k].sector = "All World"
       /\ \A t \in Tiers : Count(portfolio[k].caps, t) = 1) =>
      sector_weights[k] = 100 * BenchmarkWeight(Range(all_countries))

\* the countries the entries before entry n resolve to
RECURSIVE TouchedUpTo(_)
TouchedUpTo(n) ==
  IF n = 0 THEN {} ELSE TouchedUpTo(n - 1) \cup Range(CountriesOf(n))

\* nothing of the benchmark fetch, the weight calculation or the coverage
\* analysis has happened
NothingEntered ==
  /\ country_weights = EmptyDict
  /\ region_weights = EmptyDict
  /\ sector_weights = <<>>
  /\ cap_coverage = EmptyDict
  /\ pct_coverage = EmptyDict
  /\ results = NoReport

Skipped(k) ==
  test_world_coverage_countries(portfolio[k].sector, region_groupings).skip

\* C14: no caller of the resolver silently skips an unresolved sector: when a
\* sector label of the portfolio resolves to nothing, analyze_world_coverage,
\* calculate_portfolio_weights and constants.test_world_coverage end in an
\* error instead of continuing with the other sectors.
C14_NoCallerSkipsUnresolvedSector ==
  /\ pc = "done" => AllResolve
  /\ (pc \in {"analyze", "done"} /\ calc_error = NoError) => AllResolve
  /\ (pc = "tested" /\ \E k \in 1..Len(portfolio) : Skipped(k)) =>
       verdict.outcome = "raise"

\* how many times the entries test_world_coverage does not skip supply tier t
\* for country c
RECURSIVE TestSuppliedUpTo(_, _, _)
TestSuppliedUpTo(n, c, t) ==
  IF n = 0 THEN 0
  ELSE TestSuppliedUpTo(n - 1, c, t)
         + (IF c \in Range(test_world_coverage_countries(
                              portfolio[n].sector, region_groupings).countries)
              THEN Count(portfolio[n].caps, t) ELSE 0)

\* C16: constants.test_world_coverage returns True only for portfolios that
\* cover the Large, Medium and Small tiers of each country of the universe
\* fully and without overlaps: it returns False whenever some country lacks a
\* tier, is not referenced at all, or has a tier supplied more than once.
C16_TestWorldCoverageMeansFullCoverage ==
  (pc = "tested" /\ verdict.value = TRUE) =>
    \A c \in Universe \cup Range(COUNTRIES) : \A t \in Tiers :
      TestSuppliedUpTo(Len(portfolio), c, t) = 1

\* C15: analyze_world_coverage is pure: a second call with the same portfolio,
\* country weights, taxonomy and tier percentages returns the same report as
\* the first call; nothing of the first call lives on into the second.
C15_SecondCallSameReport ==
  (call = 2 /\ pc = "done") => results = first_results

C15_Witness ==
  /\ call = 2
  /\ pc = "done"
  /\ results = first_results
  /\ DOMAIN results.missing_caps # {}
  /\ DOMAIN results.overlapping_caps # {}

\* a step that leaves every argument of the two functions as it was
InputsKept ==
  /\ portfolio' = portfolio
  /\ fetched' = fetched
  /\ country_weights' = country_weights
  /\ region_weights' = region_weights
  /\ region_groupings' = region_groupings
  /\ all_countries' = all_countries

\* C18: analyze_world_coverage and calculate_portfolio_weights leave their
\* inputs as they found them: no step of either function, whether the call
\* goes on, returns or ends in an error, changes a tier list of the
\* portfolio, the country weights, region_groupings or all_countries, although
\* the resolver hands back the lists of the taxonomy themselves.
C18_InputsUnchanged ==
  [][(pc \in {"calc", "analyze"}) => InputsKept]_vars

C18_Witness ==
  /\ pc = "done"
  /\ Len(portfolio) = 1
  /\ portfolio[1].sector \in DOMAIN region_groupings
  /\ portfolio[1].caps = <<"Small", "Large">>
  /\ \E c \in DOMAIN cap_coverage : cap_coverage[c] = <<"Large", "Small">>
  /\ region_groupings[portfolio[1].sector] = CountriesOf(1)

\* C17: check_world_coverage returns is_perfect = True exactly when the
\* portfolio supplies every tier exactly once for each country of
\* all_countries, and so agrees with analyze_world_coverage reporting no
\* missing and no overlapping tier, also for a portfolio that leaves
\* countries of the universe unreferenced.
C17_IsPerfectIffPerfectReport ==
  (pc = "checked" /\ all_countries # <<>>) =>
    LET a == analyze_world_coverage(
               portfolio, add_missing_countries(fetched, all_countries),
               region_groupings, all_countries)
    IN  /\ verdict.value = TRUE <=>
             \A c \in Range(all_countries) : \A t \in Tiers : Supplied(c, t) = 1
        /\ verdict.value = TRUE <=>
             /\ a.error = NoError
             /\ DOMAIN a.results.missing_caps = {}
             /\ DOMAIN a.results.overlapping_caps = {}

\* no group of the taxonomy lists a country twice
NoRepeatedCountry ==
  \A g \in DOMAIN region_groupings :
    \A c \in Countries : Count(region_groupings[g], c) <= 1

\* sum of the values of a dict of percentages
SumOf(d) == SumSet(d, DOMAIN d)

\* the portfolios the conservation law is about
C19_Case ==
  /\ BothReturned
  /\ AllResolve
  /\ NoRepeatedCountry
  /\ DOMAIN country_weights = Range(all_countries)
  /\ BenchmarkWeight(Range(all_countries)) = 100
  /\ \A c \in Range(all_countries) : \A t \in Tiers : Supplied(c, t) <= 2

\* C19: conservation: for a portfolio whose sectors all resolve, a taxonomy
\* without a repeated country in a group list, a benchmark defined for exactly
\* the countries of the universe and summing to 100, and no tier of a country
\* supplied more than twice, the sum of the sector weights equals
\* 100 - sum(missing_pct) + sum(overlapping_pct) (weights in hundredths of a
\* percent: 100 is 10000).
C19_Conservation ==
  C19_Case =>
    Total(sector_weights) =
      10000 - SumOf(results.missing_pct) + SumOf(results.overlapping_pct)

C19_Witness ==
  /\ C19_Case
  /\ call = 1
  /\ Len(portfolio) = 2
  /\ SumOf(results.missing_pct) > 0
  /\ SumOf(results.overlapping_pct) > 0
  /\ Total(sector_weights) # 10000
  /\ Total(sector_weights) =
       10000 - SumOf(results.missing_pct) + SumOf(results.overlapping_pct)

\* the lists with the elements of seq in any order
PermsOf(seq) ==
  {[i \in 1..Len(seq) |-> seq[p[i]]] : p \in Permutations(1..Len(seq))}

\* the portfolios with the entries of pf in the same order and the tiers of
\* each entry in any order
RECURSIVE TierReorderings(_)
TierReorderings(pf) ==
  IF pf = <<>> THEN {<<>>}
  ELSE {<<[sector |-> Head(pf).sector, caps |-> c]>> \o rest :
          c \in PermsOf(Head(pf).caps), rest \in TierReorderings(Tail(pf))}

\* the portfolios with the entries of pf in any order and the tiers of each
\* entry in any order
Reorderings(pf) == UNION {PermsOf(v) : v \in TierReorderings(pf)}

\* seq with the elements at positions i and i + 1 exchanged
Swap(seq, i) ==
  [k \in 1..Len(seq) |->
     IF k = i THEN seq[i + 1] ELSE IF k = i + 1 THEN seq[i] ELSE seq[k]]

\* the portfolios that differ from pf by an exchange of two neighbouring
\* entries or of two neighbouring tiers of one entry
Neighbours(pf) ==
  {Swap(pf, i) : i \in 1..(Len(pf) - 1)}
    \cup UNION {{[pf EXCEPT ![k].caps = Swap(@, j)] :
                   j \in 1..(Len(pf[k].caps) - 1)} : k \in 1..Len(pf)}

\* C20: the report of analyze_world_coverage depends neither on the order of
\* the portfolio entries nor on the order of the tiers within an entry: a
\* portfolio that differs by an exchange of two neighbouring entries, or of
\* two neighbouring tiers of an entry, yields the same missing_caps,
\* missing_pct, overlapping_caps and overlapping_pct, and a portfolio for which
\* the call ends in an error does so after the exchange too. Every reordering
\* is a chain of such exchanges, and the portfolios of the model are closed
\* under them, so this holds of any two orders of a portfolio.
C20_OrderIndependent ==
  /\ (pc = "done" /\ call = 1) =>
       \A q \in Neighbours(portfolio) :
         analyze_world_coverage(q, country_weights, region_groupings,
                                all_countries)
           = [error |-> NoError, results |-> results]
  /\ (pc = "failed" /\ error.msg \in {"unknown_sector", "country_not_found"}) =>
       \A q \in Neighbours(portfolio) :
         analyze_world_coverage(q, country_weights, region_groupings,
                                all_countries).error # NoError

C20_Witness ==
  /\ pc = "done"
  /\ call = 1
  /\ Len(portfolio) = 2
  /\ Len(portfolio[1].caps) = 2
  /\ portfolio[1].caps # sorted(portfolio[1].caps)
  /\ Cardinality(Reorderings(portfolio)) = 4
  /\ Range(CountriesOf(1)) \cap Range(CountriesOf(2)) # {}
  /\ DOMAIN results.missing_caps # {}
  /\ \A q \in Reorderings(portfolio) :
       analyze_world_coverage(q, country_weights, region_groupings,
                              all_countries).results = results

\* what validate_portfolio_sectors returns for the portfolio of the run
ValidSectors == valid_sectors_of(portfolio, region_groupings, all_countries)

InvalidSectors == invalid_sectors_of(portfolio, region_groupings, all_countries)

\* C21: validate_portfolio_sectors and the resolver agree: every sector of the
\* portfolio is in exactly one of valid_sectors and invalid_sectors, a sector
\* is in invalid_sectors exactly when get_countries_for_sector returns no
\* country for it, and a portfolio with no invalid sector never makes
\* analyze_world_coverage or calculate_portfolio_weights end in their
\* unknown-sector error, whatever the taxonomy (an empty group included).
C21_ValidationAgreesWithResolver ==
  pc # "start" =>
    /\ \A k \in 1..Len(portfolio) :
         /\ InList(portfolio[k].sector, ValidSectors)
              # InList(portfolio[k].sector, InvalidSectors)
         /\ InList(portfolio[k].sector, InvalidSectors)
              <=> CountriesOf(k) = <<>>
    /\ InvalidSectors = <<>> =>
         /\ error.msg # "unknown_sector"
         /\ calc_error.msg # "sector_not_found"

====
